---- MODULE Spec2Model ----
(***************************************************************************)
(* Model of the Murf voice agent: the Flask server (src/app.py) and the    *)
(* command-line agent (src/voice_agent.py).                                *)
(*                                                                         *)
(* Python strings are TLA+ strings; dictionaries are functions whose       *)
(* DOMAIN is the set of keys present; lists are sequences.  The remote     *)
(* services (Gemini, Murf, Deepgram), the keyboard, the clock and the file *)
(* system are the environment: every call to them is a nondeterministic    *)
(* choice among the outcomes the code distinguishes.                       *)
(***************************************************************************)
EXTENDS Integers, Sequences, FiniteSets, TLC

VARIABLES
    \* ---- src/app.py ----
    gemini_client,          \* VoiceAgentAPI.gemini_client is not None
    conversations,          \* dict session_id -> list of {'role','parts'}
    last_request,           \* what the last handler call received and answered
    in_flight,              \* the requests being handled by concurrent threads
    \* ---- src/voice_agent.py ----
    gemini_model,           \* VoiceAgent.gemini_model is not None
    input_mode,             \* 'voice' or 'text'
    conversation_history,   \* list of "User: ..." / "Agent: ..." strings
    is_running,
    pc,                     \* position of VoiceAgent.run
    user_input,             \* local user_input of run
    ai_response,            \* local ai_response of run
    turn,                   \* what happened since the last acquired input
    speak,                  \* the speak_with_murf call in progress, or its result
    audio_files_to_cleanup,
    files,                  \* names of the audio files that exist on disk
    clock,                  \* the last datetime.now() read for a file name
    log,                    \* the "System" entries run wrote to LOG_FILE
    cleaned,                \* what the last _cleanup_resources call did
    listening,              \* the listen_with_deepgram call, step by step
    \* ---- generate_response applied to drawn arguments ----
    gen_call

server_vars == <<gemini_client, conversations, last_request, in_flight>>

agent_vars == <<gemini_model, input_mode, conversation_history, is_running, pc,
                user_input, ai_response, turn, speak, audio_files_to_cleanup,
                files, clock, log, cleaned, listening>>

vars == <<gemini_client, conversations, last_request, in_flight, gemini_model,
          input_mode, conversation_history, is_running, pc, user_input,
          ai_response, turn, speak, audio_files_to_cleanup, files, clock, log,
          cleaned, listening, gen_call>>

(***************************************************************************)
(* Bounds of the model.                                                    *)
(***************************************************************************)
\* accepted server messages, all sessions together
MaxServerTurns == 4

\* exchanges stored in the agent's history
MaxAgentTurns == 1

\* requests accepted by the concurrent threads, all sessions together
MaxConcurrentTurns == 2

\* distinct seconds the clock can show
MaxClock == 2

\* names that can pile up in audio_files_to_cleanup
MaxCleanup == 1

\* final transcripts Deepgram delivers during one listen_with_deepgram call
MaxTranscripts == 2

(***************************************************************************)
(* Python string and list primitives.                                      *)
(***************************************************************************)
UpperToLower ==
    [c \in {"A","B","C","D","E","F","G","H","I","J","K","L","M","N","O","P",
            "Q","R","S","T","U","V","W","X","Y","Z"} |->
        CASE c = "A" -> "a" [] c = "B" -> "b" [] c = "C" -> "c" [] c = "D" -> "d"
          [] c = "E" -> "e" [] c = "F" -> "f" [] c = "G" -> "g" [] c = "H" -> "h"
          [] c = "I" -> "i" [] c = "J" -> "j" [] c = "K" -> "k" [] c = "L" -> "l"
          [] c = "M" -> "m" [] c = "N" -> "n" [] c = "O" -> "o" [] c = "P" -> "p"
          [] c = "Q" -> "q" [] c = "R" -> "r" [] c = "S" -> "s" [] c = "T" -> "t"
          [] c = "U" -> "u" [] c = "V" -> "v" [] c = "W" -> "w" [] c = "X" -> "x"
          [] c = "Y" -> "y" [] c = "Z" -> "z"]

CharAt(s, i) == SubSeq(s, i, i)

RECURSIVE lower(_)
\* str.lower()
lower(s) ==
    IF Len(s) = 0 THEN ""
    ELSE LET c == CharAt(s, 1)
         IN  (IF c \in DOMAIN UpperToLower THEN UpperToLower[c] ELSE c)
                 \o lower(SubSeq(s, 2, Len(s)))

\* sub in s
contains(sub, s) ==
    \E i \in 1..(Len(s) - Len(sub) + 1) : SubSeq(s, i, i + Len(sub) - 1) = sub

\* s.startswith(prefix)
startswith(s, prefix) ==
    Len(s) >= Len(prefix) /\ SubSeq(s, 1, Len(prefix)) = prefix

IsSpace(c) == c = " "

\* str.strip()
strip(s) ==
    LET keep == {i \in 1..Len(s) : ~IsSpace(CharAt(s, i))}
    IN  IF keep = {} THEN ""
        ELSE LET first == CHOOSE i \in keep : \A j \in keep : i <= j
                 last == CHOOSE i \in keep : \A j \in keep : j <= i
             IN  SubSeq(s, first, last)

\* len(s.split()): the number of maximal runs of non-blank characters
word_count(s) ==
    Cardinality({i \in 1..Len(s) :
        /\ ~IsSpace(CharAt(s, i))
        /\ (i = 1 \/ IsSpace(CharAt(s, i - 1)))})

\* lst[-n:]
last_n(lst, n) ==
    IF Len(lst) <= n THEN lst ELSE SubSeq(lst, Len(lst) - n + 1, Len(lst))

\* any(word in s for word in words)
any_in(words, s) == \E w \in words : contains(w, s)

\* dict.get(key, default)
dict_get(d, key, default) == IF key \in DOMAIN d THEN d[key] ELSE default

\* [f(x) for x in lst if p(x)], for the two comprehensions of the responders
RECURSIVE select_parts(_, _)
select_parts(lst, role) ==
    IF lst = <<>> THEN <<>>
    ELSE (IF dict_get(Head(lst), "role", "") = role
          THEN <<dict_get(Head(lst), "parts", <<"">>)[1]>> ELSE <<>>)
         \o select_parts(Tail(lst), role)

elements(lst) == {lst[i] : i \in 1..Len(lst)}

(***************************************************************************)
(* The environment of the server.                                          *)
(***************************************************************************)
\* what gemini_client.models.generate_content does: raise, or answer with
\* a response whose .text is one of these
GeminiTexts == {"  ", " Ok ", "Sure, here is a thought."}

GeminiOutcomes ==
    {[kind |-> "raise", text |-> ""]} \cup
    {[kind |-> "text", text |-> t] : t \in GeminiTexts}

\* without a client or model no call is made and there is nothing to draw
NoGeminiCall == [kind |-> "not called", text |-> ""]

GeminiOutcomesIf(configured) == IF configured THEN GeminiOutcomes ELSE {NoGeminiCall}

\* what the Murf request does: answer with an 'audioFile', answer without
\* one, or fail (timeout, connection error, HTTP error status)
MurfOutcomes == {"audioFile", "no_audioFile", "error"}

SessionIds == {"s1"}

\* the 'message' values clients send
ServerMessages == {"", "   ", " tell me "}

\* the JSON bodies / event payloads clients send: any of the two keys may
\* be missing
ServerRequests ==
    {[message |-> m, session_id |-> s] : m \in ServerMessages, s \in SessionIds}
    \cup {[message |-> m] : m \in ServerMessages}
    \cup {[session_id |-> s] : s \in SessionIds}

(***************************************************************************)
(* src/app.py: VoiceAgentAPI                                               *)
(***************************************************************************)
\* the "repeated question" test of the server's fallback responder
api_repeated_question(conv_history) ==
    /\ Len(conv_history) > 0
    /\ LET recent_messages == select_parts(last_n(conv_history, 4), "user")
       IN  /\ Cardinality(elements(recent_messages)) = 1
           /\ Len(recent_messages) > 1

api_default_responses(text) ==
    << "I heard you say '" \o text \o "'. That's fascinating! What made you think about that?",
       "'" \o text \o "' - I love hearing about that! Can you tell me more?",
       "Thanks for sharing that with me! '" \o text \o "' sounds really interesting.",
       "I appreciate you telling me about '" \o text \o "'. What's your favorite part?",
       "That's really cool! '" \o text \o "' got me thinking. What's next on your mind?" >>

\* a variant of api_response_index that is off by one
api_response_index_off_by_one(text) ==
    (Len(text) + 1) % Len(api_default_responses(text))

\* "response_index = len(user_input) % len(default_responses)"
api_response_index(text) == Len(text) % Len(api_default_responses(text))

\* the fixed replies of the server's fallback responder
api_replies ==
    [greeting |-> "Namaste! I'm Neha, your AI voice assistant in India. How can I help you today?",
     how_are_you |-> "I'm doing great, thank you! It's wonderful to connect with you from India. What's on your mind?",
     name |-> "I'm Neha, your friendly AI voice assistant built for the Techfest IIT Bombay hackathon using Murf Falcon TTS!",
     help |-> "I can have natural conversations with you! I understand Indian culture and use Google's Gemini AI for smart responses with Murf Falcon voice synthesis.",
     thanks |-> "You're most welcome! Dhanyavaad! I'm here whenever you need to chat.",
     goodbye |-> "Goodbye! It was wonderful talking with you. Dhanyavaad and take care!",
     repeated |-> "I see you're asking the same question. Let me try a different approach - could you tell me more about what you're looking for?",
     long |-> "That sounds interesting! You have a lot to say about that topic. Tell me more!"]

api_question_reply(text) ==
    "That's a great question about '" \o text \o "'. While I'm still learning, I'd love to hear your thoughts on it!"

api_fallback_response(text, conv_history) ==
    LET user_input_lower == lower(text)
    IN  IF any_in({"hello", "hi", "hey"}, user_input_lower) THEN api_replies.greeting
        ELSE IF contains("how are you", user_input_lower) THEN api_replies.how_are_you
        ELSE IF any_in({"name", "who are you"}, user_input_lower) THEN api_replies.name
        ELSE IF any_in({"help", "what can you do"}, user_input_lower) THEN api_replies.help
        ELSE IF any_in({"thank", "thanks"}, user_input_lower) THEN api_replies.thanks
        ELSE IF any_in({"bye", "goodbye", "see you"}, user_input_lower) THEN api_replies.goodbye
        ELSE IF api_repeated_question(conv_history) THEN api_replies.repeated
        ELSE IF contains("?", text) THEN api_question_reply(text)
        ELSE IF word_count(text) > 10 THEN api_replies.long
        ELSE api_default_responses(text)[api_response_index(text) + 1]

\* the conversation context put into the prompt: one line per entry of the
\* recent history
RECURSIVE api_context_lines(_)
api_context_lines(recent_history) ==
    IF recent_history = <<>> THEN <<>>
    ELSE LET msg == Head(recent_history)
             role == dict_get(msg, "role", "user")
             content == IF "parts" \in DOMAIN msg /\ msg["parts"] # <<>>
                        THEN msg["parts"][1] ELSE ""
         IN  (IF role = "user" THEN <<"User: " \o content>>
              ELSE IF role = "model" THEN <<"Assistant: " \o content>>
              ELSE <<>>)
             \o api_context_lines(Tail(recent_history))

\* "recent_history = conversation_history[-6:]"
RECENT_MESSAGES == 6

\* a variant of api_conversation_context that puts the whole history into
\* the prompt
api_conversation_context_untrimmed(conv_history) ==
    IF conv_history # <<>> THEN api_context_lines(conv_history) ELSE <<>>

api_conversation_context(conv_history) ==
    IF conv_history # <<>>
    THEN api_context_lines(last_n(conv_history, RECENT_MESSAGES)) ELSE <<>>

\* a variant of api_reply_unusable that only rejects the empty reply
api_reply_unusable_only_empty(reply) == reply = ""

\* "if not ai_response or len(ai_response) < 5"
api_reply_unusable(reply) == reply = "" \/ Len(reply) < 5

\* VoiceAgentAPI.generate_response; has_client is "self.gemini_client is
\* truthy", outcome is what the Gemini call does if it is made.  The result
\* carries the reply, the number of calls made to the remote endpoint and
\* the conversation context sent with them.
api_generate_response(has_client, text, conv_history, outcome) ==
    IF ~has_client
    THEN [text |-> api_fallback_response(text, conv_history),
          remote_calls |-> 0, context |-> <<>>]
    ELSE LET context == api_conversation_context(conv_history)
             reply == strip(outcome.text)
         IN  IF outcome.kind = "raise"
             THEN [text |-> api_fallback_response(text, conv_history),
                   remote_calls |-> 1, context |-> context]
             ELSE IF api_reply_unusable(reply)
             THEN [text |-> api_fallback_response(text, conv_history),
                   remote_calls |-> 1, context |-> context]
             ELSE [text |-> reply, remote_calls |-> 1, context |-> context]

\* VoiceAgentAPI.speak_with_murf: the dictionary returned to the client
api_speak_with_murf(text, murf) ==
    IF murf = "audioFile"
    THEN [success |-> TRUE, audio_url |-> "audioFile", text |-> text]
    ELSE IF murf = "no_audioFile"
    THEN [success |-> FALSE, error |-> "No audio URL in response"]
    ELSE [success |-> FALSE, error |-> "error"]

(***************************************************************************)
(* src/app.py: the two message handlers.                                   *)
(***************************************************************************)
\* the entry stored for the user's message
user_entry(text) == [role |-> "user", parts |-> <<text>>]

\* the entry stored for the reply
model_entry(text) == [role |-> "model", parts |-> <<text>>]

\* data is the body or payload received, error the 'error' / 'message'
\* text of a refusal
NoRequest ==
    [handler |-> "none", status |-> "none", data |-> <<>>, error |-> "",
     session_id |-> "", user_message |-> "",
     ai_response |-> "", speech |-> [success |-> FALSE, error |-> ""],
     remote_calls |-> 0, murf_calls |-> 0]

\* a variant of not_provided that lets every text through
not_provided_never(text) == FALSE

\* "if not user_message:", "if not text:"
not_provided(text) == text = ""

\* a variant of conversations_append that assigns a fresh list instead of
\* appending
conversations_append_overwrites(convs, session_id, entry) ==
    (session_id :> <<entry>>) @@ convs

\* conversations[session_id].append(entry), after "if session_id not in
\* conversations: conversations[session_id] = []"
conversations_append(convs, session_id, entry) ==
    LET present == IF session_id \in DOMAIN convs THEN convs
                   ELSE (session_id :> <<>>) @@ convs
    IN  [present EXCEPT ![session_id] = Append(@, entry)]

\* a variant of session_history that reads the history of some session,
\* not of the one asked for
session_history_of_any(convs, session_id) ==
    convs[CHOOSE k \in DOMAIN convs : \A j \in DOMAIN convs : Len(convs[k]) >= Len(convs[j])]

\* "conversations[session_id]", the history handed to generate_response
session_history(convs, session_id) == convs[session_id]

total_entries(convs) ==
    LET RECURSIVE sum(_)
        sum(S) == IF S = {} THEN 0
                  ELSE LET k == CHOOSE k \in S : TRUE
                       IN  Len(convs[k]) + sum(S \ {k})
    IN  sum(DOMAIN convs)

\* the body shared, line for line, by send_message and handle_message;
\* rejected is the status of a request without message, answered that of an
\* answered one
handle(handler, rejected, answered, data) ==
    LET user_message == strip(dict_get(data, "message", ""))
        session_id == dict_get(data, "session_id", "default")
    IN  IF not_provided(user_message)
        THEN /\ last_request' = [NoRequest EXCEPT !.handler = handler,
                                                  !.status = rejected,
                                                  !.data = data,
                                                  !.error = "No message provided"]
             /\ UNCHANGED conversations
        ELSE \E gemini \in GeminiOutcomesIf(gemini_client), murf \in MurfOutcomes :
             LET with_user == conversations_append(conversations, session_id,
                                  user_entry(user_message))
                 response == api_generate_response(gemini_client, user_message,
                                  session_history(with_user, session_id), gemini)
                 with_model == conversations_append(with_user, session_id,
                                  model_entry(response.text))
                 speech_result == api_speak_with_murf(response.text, murf)
             IN  /\ total_entries(conversations) + 2 <= 2 * MaxServerTurns
                 /\ conversations' = with_model
                 /\ last_request' =
                        [handler |-> handler, status |-> answered,
                         data |-> data, error |-> "",
                         session_id |-> session_id, user_message |-> user_message,
                         ai_response |-> response.text, speech |-> speech_result,
                         remote_calls |-> response.remote_calls, murf_calls |-> 1]

\* POST /api/conversation
send_message ==
    /\ \E data \in ServerRequests : handle("send_message", "400", "200", data)
    /\ UNCHANGED <<gemini_client, in_flight, agent_vars, gen_call>>

\* WebSocket event 'send_message'
handle_message ==
    /\ \E data \in ServerRequests :
           handle("handle_message", "error", "message_response", data)
    /\ UNCHANGED <<gemini_client, in_flight, agent_vars, gen_call>>

\* the JSON bodies sent to /api/tts: the 'text' key may be missing
TtsRequests == {[text |-> t] : t \in {"", "  ", " Hello! "}} \cup {<<>>}

\* POST /api/tts
text_to_speech ==
    /\ \E data \in TtsRequests :
          LET text == strip(dict_get(data, "text", ""))
          IN  IF not_provided(text)
              THEN last_request' = [NoRequest EXCEPT !.handler = "text_to_speech",
                                                     !.status = "400",
                                                     !.data = data,
                                                     !.error = "No text provided"]
              ELSE \E murf \in MurfOutcomes :
                       last_request' =
                           [NoRequest EXCEPT !.handler = "text_to_speech",
                                             !.status = "200",
                                             !.data = data,
                                             !.speech = api_speak_with_murf(text, murf),
                                             !.murf_calls = 1]
    /\ UNCHANGED <<gemini_client, conversations, in_flight, agent_vars, gen_call>>

(***************************************************************************)
(* src/voice_agent.py: Config and the environment of the agent.            *)
(***************************************************************************)
MAX_HISTORY_LENGTH == 10
MAX_RETRIES == 3

\* what listen_with_deepgram can meet: a final transcript, the listening
\* timeout, a Deepgram error event, or an exception while setting up
ListenOutcomes ==
    {[kind |-> "transcript", text |-> t] : t \in {"tell me", " Goodbye "}}
    \cup {[kind |-> k, text |-> ""] : k \in {"timeout", "error_event", "exception"}}

\* what input("> ") can meet: a typed line, or EOFError / KeyboardInterrupt
KeyboardOutcomes ==
    {[kind |-> "line", text |-> t] : t \in {"", "  ", "why so?", "please STOP now"}}
    \cup {[kind |-> k, text |-> ""] : k \in {"EOFError", "KeyboardInterrupt"}}

\* texts handed to speak_with_murf when it is exercised on its own
SpokenTexts == {"Hello!", "Sure, here is a thought."}

\* what one execution of the body of speak_with_murf can meet
SpeakOutcomes ==
    {"timeout",           \* requests.exceptions.Timeout from post or get
     "request_error",     \* any other RequestException, HTTP error status
     "no_audioFile",      \* the JSON answer has no 'audioFile'
     "unexpected_error",  \* any other exception before the file name is made
     "open_failed",       \* open(audio_file, 'wb') raises
     "write_failed",      \* f.write raises after the file was created
     "play_failed",       \* the player fails or is missing; _play_audio prints
     "played"}            \* the player ran

(***************************************************************************)
(* src/voice_agent.py: VoiceAgent._fallback_response, generate_response    *)
(***************************************************************************)
\* the index of the first occurrence of sep in s, 0 if there is none
find(s, sep) ==
    LET hits == {i \in 1..(Len(s) - Len(sep) + 1) : SubSeq(s, i, i + Len(sep) - 1) = sep}
    IN  IF hits = {} THEN 0 ELSE CHOOSE i \in hits : \A j \in hits : i <= j

\* msg.split(sep)[1] if sep in msg else msg
split_second(msg, sep) ==
    IF find(msg, sep) = 0 THEN msg
    ELSE LET rest == SubSeq(msg, find(msg, sep) + Len(sep), Len(msg))
         IN  IF find(rest, sep) = 0 THEN rest
             ELSE SubSeq(rest, 1, find(rest, sep) - 1)

RECURSIVE agent_recent_messages(_)
\* [msg.split(": ")[1] if ": " in msg else msg for msg in lst
\*  if msg.startswith("User:")]
agent_recent_messages(lst) ==
    IF lst = <<>> THEN <<>>
    ELSE (IF startswith(Head(lst), "User:")
          THEN <<split_second(Head(lst), ": ")>> ELSE <<>>)
         \o agent_recent_messages(Tail(lst))

agent_repeated_question(history) ==
    /\ Len(history) > 0
    /\ LET recent_messages == agent_recent_messages(last_n(history, 4))
       IN  /\ Cardinality(elements(recent_messages)) = 1
           /\ Len(recent_messages) > 1

agent_default_responses(text) ==
    << "I heard you say '" \o text \o "'. That's fascinating! What made you think about that?",
       "'" \o text \o "' - I love hearing about that! Can you tell me more?",
       "Thanks for sharing that with me! '" \o text \o "' sounds really interesting.",
       "I appreciate you telling me about '" \o text \o "'. What's your favorite part?",
       "That's really cool! '" \o text \o "' got me thinking. What's next on your mind?" >>

\* "response_index = len(user_input) % len(default_responses)"
agent_response_index(text) == Len(text) % Len(agent_default_responses(text))

\* the fixed replies of the agent's fallback responder
agent_replies ==
    [greeting |-> "Hello! I'm your AI voice assistant powered by Murf Falcon. How can I help you today?",
     how_are_you |-> "I'm doing great! I'm excited to chat with you. What's on your mind?",
     name |-> "I'm your friendly AI voice assistant, built for the Techfest hackathon using Murf Falcon TTS!",
     help |-> "I can have natural conversations with you! I use Google's Gemini AI for smart responses and Murf Falcon for voice synthesis.",
     thanks |-> "You're very welcome! I'm here whenever you need to chat.",
     goodbye |-> "Goodbye! It was great talking with you. Come back anytime!",
     repeated |-> "I see you're asking the same question. Let me try a different approach - could you tell me more about what you're looking for?",
     long |-> "That sounds interesting! You have a lot to say about that topic. Tell me more!"]

agent_question_reply(text) ==
    "That's a great question about '" \o text \o "'. While I'm still learning, I'd love to hear your thoughts on it!"

agent_fallback_response(text, history) ==
    LET user_input_lower == lower(text)
    IN  IF any_in({"hello", "hi", "hey"}, user_input_lower) THEN agent_replies.greeting
        ELSE IF contains("how are you", user_input_lower) THEN agent_replies.how_are_you
        ELSE IF any_in({"name", "who are you"}, user_input_lower) THEN agent_replies.name
        ELSE IF any_in({"help", "what can you do"}, user_input_lower) THEN agent_replies.help
        ELSE IF any_in({"thank", "thanks"}, user_input_lower) THEN agent_replies.thanks
        ELSE IF any_in({"bye", "goodbye", "see you"}, user_input_lower) THEN agent_replies.goodbye
        ELSE IF agent_repeated_question(history) THEN agent_replies.repeated
        ELSE IF contains("?", text) THEN agent_question_reply(text)
        ELSE IF word_count(text) > 10 THEN agent_replies.long
        ELSE agent_default_responses(text)[agent_response_index(text) + 1]

RECURSIVE agent_chat_history(_)
\* the role/parts list built from the stored strings for start_chat
agent_chat_history(lst) ==
    IF lst = <<>> THEN <<>>
    ELSE LET msg == Head(lst)
         IN  (IF startswith(msg, "User: ")
              THEN <<[role |-> "user", parts |-> <<SubSeq(msg, 7, Len(msg))>>]>>
              ELSE IF startswith(msg, "Agent: ")
              THEN <<[role |-> "model", parts |-> <<SubSeq(msg, 8, Len(msg))>>]>>
              ELSE <<>>)
             \o agent_chat_history(Tail(lst))

\* a variant of agent_truncate that keeps one entry less
agent_truncate_one_less(history) ==
    IF Len(history) > MAX_HISTORY_LENGTH * 2
    THEN last_n(history, MAX_HISTORY_LENGTH * 2 - 1) ELSE history

\* "keep conversation history manageable"
agent_truncate(history) ==
    IF Len(history) > MAX_HISTORY_LENGTH * 2
    THEN last_n(history, MAX_HISTORY_LENGTH * 2) ELSE history

\* the two entries a Gemini exchange stores
agent_exchange(text, reply) == <<"User: " \o text, "Agent: " \o reply>>

\* VoiceAgent.generate_response; has_model is "self.gemini_model is truthy",
\* outcome is what chat.send_message / response.text do if they are reached.
\* The result carries the reply, the history afterwards, the number of
\* calls made to the remote endpoint and the history given to start_chat.
agent_generate_response(has_model, text, history, outcome) ==
    IF has_model
    THEN LET chat == agent_chat_history(last_n(history, MAX_HISTORY_LENGTH))
                         \o <<[role |-> "user", parts |-> <<text>>]>>
             start_chat == SubSeq(chat, 1, Len(chat) - 1)
             reply == strip(outcome.text)
         IN  IF outcome.kind = "raise"
             THEN [text |-> agent_fallback_response(text, history),
                   history |-> history,
                   remote_calls |-> 1, start_chat |-> start_chat]
             ELSE [text |-> reply,
                   history |-> agent_truncate(history \o agent_exchange(text, reply)),
                   remote_calls |-> 1, start_chat |-> start_chat]
    ELSE [text |-> agent_fallback_response(text, history),
          history |-> history,
          remote_calls |-> 0, start_chat |-> <<>>]

(***************************************************************************)
(* src/voice_agent.py: VoiceAgent.speak_with_murf                          *)
(***************************************************************************)
NotSpeaking ==
    [state |-> "idle", text |-> "", retry_count |-> 0, attempts |-> 0,
     result |-> FALSE, outcome |-> "none", audio_file |-> 0, written |-> FALSE,
     remove_failed |-> FALSE]

\* the call speak_with_murf(text) as it is entered
speak_call(text) == [NotSpeaking EXCEPT !.state = "running", !.text = text]

\* the except clauses that retry
is_request_failure(outcome) == outcome \in {"timeout", "request_error"}

\* a variant of may_retry that allows one retry more
may_retry_once_more(retry_count) == retry_count <= MAX_RETRIES

\* "if retry_count < self.config.MAX_RETRIES"
may_retry(retry_count) == retry_count < MAX_RETRIES

\* the outcomes in which line 166 is reached and a file name is made
names_file(outcome) ==
    outcome \in {"open_failed", "write_failed", "play_failed", "played"}

\* the outcomes in which open() has created the file
creates_file(outcome) == outcome \in {"write_failed", "play_failed", "played"}

\* the value the body returns when it does not retry
speak_result(outcome) == outcome \in {"play_failed", "played"}

\* list.remove(x): drop the first occurrence
RECURSIVE list_remove(_, _)
list_remove(lst, x) ==
    IF lst = <<>> THEN <<>>
    ELSE IF Head(lst) = x THEN Tail(lst)
    ELSE <<Head(lst)>> \o list_remove(Tail(lst), x)

\* the finally clause of speak_with_murf, for the frame whose audio_file is
\* name (0 stands for None); remove_ok says whether os.remove succeeds
speak_finally(name, cleanup, disk, remove_ok) ==
    IF name # 0 /\ name \in disk
    THEN IF remove_ok
         THEN [cleanup |-> IF name \in elements(cleanup)
                           THEN list_remove(cleanup, name) ELSE cleanup,
               files |-> disk \ {name}]
         ELSE [cleanup |-> cleanup, files |-> disk]
    ELSE [cleanup |-> cleanup, files |-> disk]

\* one execution of the body of speak_with_murf, at second now: either it
\* calls itself again with retry_count + 1 (the frames that wait for that
\* call hold no file: their finally clauses do nothing when it returns), or
\* it returns after its finally clause
speak_attempt ==
    /\ speak.state = "running"
    /\ \E outcome \in SpeakOutcomes, now \in clock..MaxClock, remove_ok \in BOOLEAN :
          LET name == IF names_file(outcome) THEN now ELSE 0
              listed == IF name # 0 THEN Append(audio_files_to_cleanup, name)
                        ELSE audio_files_to_cleanup
              disk == IF creates_file(outcome) THEN files \cup {name} ELSE files
              after == speak_finally(name, listed, disk, remove_ok)
          IN  /\ Len(after.cleanup) <= MaxCleanup
              /\ clock' = IF name # 0 THEN now ELSE clock
              /\ audio_files_to_cleanup' = after.cleanup
              /\ files' = after.files
              /\ speak' =
                    IF is_request_failure(outcome) /\ may_retry(speak.retry_count)
                    THEN [speak EXCEPT !.retry_count = @ + 1, !.attempts = @ + 1,
                                       !.outcome = outcome]
                    ELSE [speak EXCEPT !.state = "returned", !.attempts = @ + 1,
                                       !.outcome = outcome,
                                       !.result = speak_result(outcome),
                                       !.audio_file = name,
                                       !.written = creates_file(outcome),
                                       !.remove_failed = (name \in after.files)]
    /\ UNCHANGED <<server_vars, gemini_model, input_mode, conversation_history,
                   is_running, pc, user_input, ai_response, turn,
                   log, cleaned, listening, gen_call>>

\* KeyboardInterrupt inside speak_with_murf: no except clause of the method
\* catches it, its finally clause runs, and the caller sees the exception.
\* It strikes during a request (no file yet) or while the file is played.
speak_interrupt ==
    /\ speak.state = "running"
    /\ \E playing \in BOOLEAN, now \in clock..MaxClock, remove_ok \in BOOLEAN :
          LET name == IF playing THEN now ELSE 0
              listed == IF playing THEN Append(audio_files_to_cleanup, name)
                        ELSE audio_files_to_cleanup
              disk == IF playing THEN files \cup {name} ELSE files
              after == speak_finally(name, listed, disk, remove_ok)
          IN  /\ Len(after.cleanup) <= MaxCleanup
              /\ clock' = IF name # 0 THEN now ELSE clock
              /\ audio_files_to_cleanup' = after.cleanup
              /\ files' = after.files
              /\ speak' = [speak EXCEPT !.state = "raised", !.attempts = @ + 1,
                                       !.outcome = "KeyboardInterrupt",
                                       !.audio_file = name, !.written = playing,
                                       !.remove_failed = (name \in after.files)]
    /\ UNCHANGED <<server_vars, gemini_model, input_mode, conversation_history,
                   is_running, pc, user_input, ai_response, turn,
                   log, cleaned, listening, gen_call>>

\* a caller enters speak_with_murf(text) with the default retry_count = 0
\* once the previous call is over
call_speak_with_murf ==
    /\ speak.state # "running"
    /\ \E text \in SpokenTexts : speak' = speak_call(text)
    /\ UNCHANGED <<server_vars, gemini_model, input_mode, conversation_history,
                   is_running, pc, user_input, ai_response, turn,
                   audio_files_to_cleanup, files, clock,
                   log, cleaned, listening, gen_call>>

(***************************************************************************)
(* src/voice_agent.py: VoiceAgent.run and the input methods                *)
(***************************************************************************)
greeting == "Hello! I'm your AI voice assistant powered by Murf Falcon. How can I help you today?"
farewell == "Goodbye! It was nice talking to you. Thank you for using Murf Falcon!"
interrupt_msg == "Goodbye! Conversation interrupted."

\* a variant of exit_words that lacks 'stop'
exit_words_without_stop == {"goodbye", "bye", "exit", "quit"}

exit_words == {"goodbye", "bye", "exit", "quit", "stop"}

\* "any(word in user_input.lower() for word in exit_words)"
has_exit_word(text) == any_in(exit_words, lower(text))

\* the value listen_with_deepgram returns
listen_with_deepgram(outcome) ==
    IF outcome.kind = "transcript" THEN strip(outcome.text) ELSE ""

\* the value get_text_input returns
get_text_input(outcome) ==
    IF outcome.kind = "line" THEN strip(outcome.text) ELSE "quit"

\* a variant of should_speak that speaks whatever was generated
should_speak_always(reply) == TRUE

\* "if ai_response:" before the reply is spoken
should_speak(reply) == reply # ""

\* "=" * 50
separator == "=================================================="

\* the entries run logs before the greeting
session_start_entries(mode) ==
    <<separator, "New conversation session started - Mode: " \o mode, separator>>

\* the entries the finally clause of run logs
session_end_entries ==
    <<separator, "Conversation session ended", separator \o "\n">>

NoTurn ==
    [acquired |-> FALSE, input |-> "", generate_calls |-> 0, generated_for |-> "",
     reply |-> "", spoken |-> <<>>]

\* select_input_mode, the session log header and the call that speaks the
\* greeting
start ==
    /\ pc = "init"
    /\ input_mode' \in {"voice", "text"}
    /\ log' = log \o session_start_entries(input_mode')
    /\ speak' = speak_call(greeting)
    /\ pc' = "greeting"
    /\ UNCHANGED <<server_vars, gemini_model, conversation_history, is_running,
                   user_input, ai_response, turn, audio_files_to_cleanup, files,
                   clock,
                   cleaned, listening, gen_call>>

\* the greeting call is over: "self.is_running = True" and the loop is
\* entered; an exception out of it leaves run before the try statement
greeted ==
    /\ pc = "greeting"
    /\ \/ /\ speak.state = "returned"
          /\ is_running' = TRUE
          /\ pc' = "listen"
       \/ /\ speak.state = "raised"
          /\ pc' = "aborted"
          /\ UNCHANGED is_running
    /\ speak' = NotSpeaking
    /\ UNCHANGED <<server_vars, gemini_model, input_mode, conversation_history,
                   user_input, ai_response, turn, audio_files_to_cleanup, files,
                   clock,
                   log, cleaned, listening, gen_call>>

\* the loop body from the acquisition of the input to the exit-word test
acquired(text) ==
    /\ user_input' = text
    /\ turn' = [NoTurn EXCEPT !.acquired = TRUE, !.input = text,
                   !.spoken = IF text # "" /\ has_exit_word(text)
                              THEN <<farewell>> ELSE <<>>]
    /\ IF text = ""
       THEN pc' = "listen" /\ UNCHANGED speak
       ELSE IF has_exit_word(text)
       THEN pc' = "farewell" /\ speak' = speak_call(farewell)
       ELSE pc' = "generate" /\ UNCHANGED speak

\* voice mode: "user_input = await self.listen_with_deepgram()"
listen ==
    /\ pc = "listen" /\ is_running /\ input_mode = "voice"
    /\ \E outcome \in ListenOutcomes : acquired(listen_with_deepgram(outcome))
    /\ UNCHANGED <<server_vars, gemini_model, input_mode, conversation_history,
                   is_running, ai_response, audio_files_to_cleanup, files, clock,
                   log, cleaned, listening, gen_call>>

\* text mode: "user_input = self.get_text_input()"
type_input ==
    /\ pc = "listen" /\ is_running /\ input_mode = "text"
    /\ \E outcome \in KeyboardOutcomes : acquired(get_text_input(outcome))
    /\ UNCHANGED <<server_vars, gemini_model, input_mode, conversation_history,
                   is_running, ai_response, audio_files_to_cleanup, files, clock,
                   log, cleaned, listening, gen_call>>

\* "ai_response = self.generate_response(user_input)" and the test that
\* follows it
generate ==
    /\ pc = "generate"
    /\ \E outcome \in GeminiOutcomesIf(gemini_model) :
          LET response == agent_generate_response(gemini_model, user_input,
                              conversation_history, outcome)
          IN  /\ Len(response.history) <= 2 * MaxAgentTurns
              /\ conversation_history' = response.history
              /\ ai_response' = response.text
              /\ IF should_speak(response.text)
                 THEN /\ pc' = "respond"
                      /\ speak' = speak_call(response.text)
                      /\ turn' = [turn EXCEPT !.generate_calls = @ + 1,
                                     !.generated_for = user_input,
                                     !.reply = response.text,
                                     !.spoken = Append(@, response.text)]
                 ELSE /\ pc' = "listen"
                      /\ UNCHANGED speak
                      /\ turn' = [turn EXCEPT !.generate_calls = @ + 1,
                                     !.generated_for = user_input,
                                     !.reply = response.text]
    /\ UNCHANGED <<server_vars, gemini_model, input_mode, is_running, user_input,
                   audio_files_to_cleanup, files, clock,
                   log, cleaned, listening, gen_call>>

\* the reply has been spoken (or not, speak_with_murf said False): next
\* round of the loop
responded ==
    /\ pc = "respond" /\ speak.state = "returned"
    /\ pc' = "listen"
    /\ speak' = NotSpeaking
    /\ UNCHANGED <<server_vars, gemini_model, input_mode, conversation_history,
                   is_running, user_input, ai_response, turn,
                   audio_files_to_cleanup, files, clock,
                   log, cleaned, listening, gen_call>>

\* after the farewell: "self.is_running = False; break"
said_farewell ==
    /\ pc = "farewell" /\ speak.state = "returned"
    /\ is_running' = FALSE
    /\ pc' = "finally"
    /\ UNCHANGED <<server_vars, gemini_model, input_mode, conversation_history,
                   user_input, ai_response, turn, speak, audio_files_to_cleanup,
                   files, clock,
                   log, cleaned, listening, gen_call>>

\* "except KeyboardInterrupt:" of the loop body: the interrupt struck while
\* listening (voice mode), in generate_response or in speak_with_murf; the
\* handler speaks interrupt_msg
keyboard_interrupt ==
    /\ \/ pc = "listen" /\ is_running /\ input_mode = "voice"
       \/ pc = "generate"
       \/ pc \in {"respond", "farewell"} /\ speak.state = "raised"
    /\ pc' = "interrupted"
    /\ speak' = speak_call(interrupt_msg)
    /\ UNCHANGED <<server_vars, gemini_model, input_mode, conversation_history,
                   is_running, user_input, ai_response, turn,
                   audio_files_to_cleanup, files, clock,
                   log, cleaned, listening, gen_call>>

\* the end of the handler: "self.is_running = False; break"; an exception
\* raised inside the handler leaves the loop as it is
interrupted ==
    /\ pc = "interrupted"
    /\ \/ /\ speak.state = "returned"
          /\ is_running' = FALSE
       \/ /\ speak.state = "raised"
          /\ UNCHANGED is_running
    /\ pc' = "finally"
    /\ UNCHANGED <<server_vars, gemini_model, input_mode, conversation_history,
                   user_input, ai_response, turn, speak, audio_files_to_cleanup,
                   files, clock,
                   log, cleaned, listening, gen_call>>

NotCleaned == [done |-> FALSE, listed |-> <<>>, removed |-> {}, failed |-> {}]

\* a variant of cleanup_files that leaves every file where it is
cleanup_files_removes_nothing(listed, disk, failing) == disk

\* the loop of _cleanup_resources: every listed file that exists is
\* removed, unless os.remove fails for it (failing)
cleanup_files(listed, disk, failing) == disk \ (elements(listed) \ failing)

\* the finally clause of run: the session end is logged, then
\* _cleanup_resources removes the listed files that exist (os.remove may
\* fail for some of them) and clears the list
cleanup_resources ==
    /\ pc = "finally"
    /\ log' = log \o session_end_entries
    /\ \E failing \in SUBSET (files \cap elements(audio_files_to_cleanup)) :
          /\ files' = cleanup_files(audio_files_to_cleanup, files, failing)
          /\ cleaned' = [done |-> TRUE, listed |-> audio_files_to_cleanup,
                         removed |-> (files \cap elements(audio_files_to_cleanup))
                                        \ failing,
                         failed |-> failing]
    /\ audio_files_to_cleanup' = <<>>
    /\ pc' = "stopped"
    /\ UNCHANGED <<server_vars, gemini_model, input_mode, conversation_history,
                   is_running, user_input, ai_response, turn, speak, clock,
                   listening, gen_call>>

(***************************************************************************)
(* generate_response of both programs as a function of its arguments.      *)
(***************************************************************************)
GenInputs ==
    {"Hi, how are you?", "how are you", "HELLO", "this", "What is your name",
     "who can help", "many thanks", "thanks, bye", "see you", "why so?",
     "tell me", "ok", "nope", "a b c d e f g jj k l m"}

\* histories a session of the server can hold when a request arrives
GenApiHistories ==
    {<<>>,
     <<user_entry("tell me"), model_entry("Sure, here is a thought.")>>,
     <<user_entry("why so?"), model_entry("Sure, here is a thought."),
       user_entry("why so?"), model_entry("Sure, here is a thought.")>>,
     <<user_entry("ok"), model_entry("Sure, here is a thought."),
       user_entry("tell me"), model_entry("Sure, here is a thought.")>>,
     <<user_entry("one"), model_entry("Reply one."),
       user_entry("two"), model_entry("Reply two."),
       user_entry("three"), model_entry("Reply three."),
       user_entry("four"), model_entry("Reply four.")>>}

\* histories the agent can hold when generate_response is called; only
\* Gemini exchanges are stored, so without a model the history is empty
GenAgentHistories ==
    {<<>>,
     agent_exchange("tell me", "Sure, here is a thought."),
     agent_exchange("why so?", "") \o agent_exchange("why so?", "Sure, here is a thought."),
     agent_exchange("ok", "Sure, here is a thought.") \o agent_exchange("tell me", "Ok"),
     agent_exchange("one", "Reply one.") \o agent_exchange("two", "Reply two.")
         \o agent_exchange("three", "Reply three.") \o agent_exchange("four", "")
         \o agent_exchange("five", "Reply five.") \o agent_exchange("six", "Reply six.")}

\* sent is the conversation history handed to the remote endpoint
NoResult ==
    [done |-> FALSE, text |-> "", remote_calls |-> 0, history |-> <<>>,
     sent |-> <<>>]

\* the histories the agent can hold, given whether it has a model
GenAgentHistoriesOf(configured) ==
    IF configured THEN GenAgentHistories ELSE {<<>>}

GenCalls(program, configured, histories) ==
    {[program |-> program, configured |-> configured, text |-> t, history |-> h,
      outcome |-> o, result |-> NoResult] :
        t \in GenInputs, h \in histories, o \in GeminiOutcomesIf(configured)}

InitGenCall ==
    \E c \in BOOLEAN :
        \/ gen_call \in GenCalls("app", c, GenApiHistories)
        \/ gen_call \in GenCalls("voice_agent", c, GenAgentHistoriesOf(c))

\* the call of the handlers: the user entry is in the history already
api_generate ==
    /\ gen_call.program = "app" /\ ~gen_call.result.done
    /\ LET with_user == Append(gen_call.history, user_entry(gen_call.text))
           response == api_generate_response(gen_call.configured, gen_call.text,
                           with_user, gen_call.outcome)
       IN  gen_call' = [gen_call EXCEPT !.result =
               [done |-> TRUE, text |-> response.text,
                remote_calls |-> response.remote_calls, history |-> with_user,
                sent |-> response.context]]
    /\ UNCHANGED <<server_vars, agent_vars>>

agent_generate ==
    /\ gen_call.program = "voice_agent" /\ ~gen_call.result.done
    /\ LET response == agent_generate_response(gen_call.configured, gen_call.text,
                           gen_call.history, gen_call.outcome)
       IN  gen_call' = [gen_call EXCEPT !.result =
               [done |-> TRUE, text |-> response.text,
                remote_calls |-> response.remote_calls,
                history |-> response.history, sent |-> response.start_chat]]
    /\ UNCHANGED <<server_vars, agent_vars>>

(***************************************************************************)
(* The calls of VoiceAgent.generate_response in one run, one after the     *)
(* other, each with the input of its round of the loop.                    *)
(***************************************************************************)
\* the input of every round of a long conversation: the same message, which
\* has no keyword of the responder
ChatInputs == {"tell me"}

\* Gemini in a long conversation: it raises, answers, or answers with blank
\* text
ChatOutcomes(configured) ==
    IF configured
    THEN {[kind |-> "raise", text |-> ""], [kind |-> "text", text |-> " Ok "],
          [kind |-> "text", text |-> "  "]}
    ELSE {NoGeminiCall}

NoPreviousCall == [done |-> FALSE, text |-> ""]

\* before the first call of a run; previous is the call before the last one
NoChatCall ==
    [program |-> "voice_agent", configured |-> FALSE, text |-> "",
     history |-> <<>>, outcome |-> NoGeminiCall, result |-> NoResult,
     previous |-> NoPreviousCall]

\* "ai_response = self.generate_response(user_input)" of one round
converse ==
    /\ \E text \in ChatInputs, outcome \in ChatOutcomes(gemini_model) :
          \E response \in {agent_generate_response(gemini_model, text,
                                  conversation_history, outcome)} :
              /\ conversation_history' = response.history
              /\ user_input' = text
              /\ ai_response' = response.text
              /\ gen_call' =
                    [program |-> "voice_agent", configured |-> gemini_model,
                     text |-> text, history |-> conversation_history,
                     outcome |-> outcome,
                     result |-> [done |-> TRUE, text |-> response.text,
                                 remote_calls |-> response.remote_calls,
                                 history |-> response.history,
                                 sent |-> response.start_chat],
                     previous |-> [done |-> gen_call.result.done,
                                   text |-> gen_call.text]]
    /\ UNCHANGED <<server_vars, gemini_model, input_mode, is_running, pc, turn,
                   speak, audio_files_to_cleanup, files, clock, log, cleaned,
                   listening>>

(***************************************************************************)
(* src/voice_agent.py: VoiceAgent.listen_with_deepgram, step by step.      *)
(***************************************************************************)
\* the locals of a call: dg_connection and microphone are "None" until
\* they are assigned, then tell how far the object got; errors collects
\* what went wrong; leaving is how the body ends, before its finally clause
NotListening ==
    [state |-> "idle", dg_connection |-> "None", microphone |-> "None",
     transcribed_text |-> <<>>, transcription_complete |-> FALSE,
     errors |-> {}, leaving |-> "none", result |-> "",
     microphone_finish |-> "not called", dg_finish |-> "not called"]

\* ' '.join(lst)
RECURSIVE join(_)
join(lst) ==
    IF lst = <<>> THEN ""
    ELSE IF Len(lst) = 1 THEN lst[1]
    ELSE lst[1] \o " " \o join(Tail(lst))

\* the sentences of the Transcript events
Sentences == {"", " ", "tell me"}

\* "except Exception as e: ... return ''"
listen_failed(l) ==
    [l EXCEPT !.errors = @ \cup {"exception"}, !.leaving = "return",
              !.result = "", !.state = "finally"]

\* a variant of finish_resource that never calls finish()
finish_resource_skipped(resource, outcome) == "not called"

\* "if microphone: try: microphone.finish() except: pass", and the same
\* for dg_connection; outcome is what finish() does
finish_resource(resource, outcome) ==
    IF resource # "None" THEN outcome ELSE "not called"

\* the method is entered
call_listen_with_deepgram ==
    /\ listening.state \in {"idle", "returned", "raised"}
    /\ listening' = [NotListening EXCEPT !.state = "connect"]
    /\ UNCHANGED <<server_vars, gemini_model, input_mode, conversation_history,
                   is_running, pc, user_input, ai_response, turn, speak,
                   audio_files_to_cleanup, files, clock, log, cleaned, gen_call>>

\* "dg_connection = self.deepgram_client.listen.live.v('1')"
listen_connect ==
    /\ listening.state = "connect"
    /\ \E outcome \in {"created", "raised"} :
          listening' =
              IF outcome = "created"
              THEN [listening EXCEPT !.dg_connection = "created", !.state = "start"]
              ELSE listen_failed(listening)
    /\ UNCHANGED <<server_vars, gemini_model, input_mode, conversation_history,
                   is_running, pc, user_input, ai_response, turn, speak,
                   audio_files_to_cleanup, files, clock, log, cleaned, gen_call>>

\* the handlers are registered and "await dg_connection.start(options)":
\* the connection opens, or start answers False, or it raises, before or
\* after the connection was opened
listen_start ==
    /\ listening.state = "start"
    /\ \E outcome \in {"started", "refused", "raised", "raised_when_open"} :
          listening' =
              CASE outcome = "started" ->
                     [listening EXCEPT !.dg_connection = "started",
                                       !.state = "microphone"]
                [] outcome = "refused" ->
                     [listening EXCEPT !.state = "microphone"]
                [] outcome = "raised" -> listen_failed(listening)
                [] outcome = "raised_when_open" ->
                     listen_failed([listening EXCEPT !.dg_connection = "started"])
    /\ UNCHANGED <<server_vars, gemini_model, input_mode, conversation_history,
                   is_running, pc, user_input, ai_response, turn, speak,
                   audio_files_to_cleanup, files, clock, log, cleaned, gen_call>>

\* "microphone = Microphone(dg_connection.send); microphone.start()"
listen_microphone ==
    /\ listening.state = "microphone"
    /\ \E outcome \in {"started", "constructor_raised", "start_raised",
                         "start_raised_when_running"} :
          listening' =
              CASE outcome = "started" ->
                     [listening EXCEPT !.microphone = "started", !.state = "wait"]
                [] outcome = "constructor_raised" -> listen_failed(listening)
                [] outcome = "start_raised" ->
                     listen_failed([listening EXCEPT !.microphone = "created"])
                [] outcome = "start_raised_when_running" ->
                     listen_failed([listening EXCEPT !.microphone = "started"])
    /\ UNCHANGED <<server_vars, gemini_model, input_mode, conversation_history,
                   is_running, pc, user_input, ai_response, turn, speak,
                   audio_files_to_cleanup, files, clock, log, cleaned, gen_call>>

\* the callback on_message, called for a Transcript event while the method
\* waits
on_message ==
    /\ listening.state = "wait"
    /\ \E sentence \in Sentences, is_final \in BOOLEAN :
          listening' =
              IF Len(sentence) = 0 \/ ~is_final
                     \/ Len(listening.transcribed_text) >= MaxTranscripts
              THEN listening
              ELSE [listening EXCEPT !.transcribed_text = Append(@, sentence),
                                     !.transcription_complete = TRUE]
    /\ UNCHANGED <<server_vars, gemini_model, input_mode, conversation_history,
                   is_running, pc, user_input, ai_response, turn, speak,
                   audio_files_to_cleanup, files, clock, log, cleaned, gen_call>>

\* the callback on_error, called for an Error event while the method waits
on_error ==
    /\ listening.state = "wait"
    /\ listening' = [listening EXCEPT !.errors = @ \cup {"error_event"},
                                      !.transcription_complete = TRUE]
    /\ UNCHANGED <<server_vars, gemini_model, input_mode, conversation_history,
                   is_running, pc, user_input, ai_response, turn, speak,
                   audio_files_to_cleanup, files, clock, log, cleaned, gen_call>>

\* "except asyncio.TimeoutError: ... return ''"
listen_timeout ==
    /\ listening.state = "wait"
    /\ ~listening.transcription_complete
    /\ listening' = [listening EXCEPT !.errors = @ \cup {"timeout"},
                                      !.leaving = "return", !.result = "",
                                      !.state = "finally"]
    /\ UNCHANGED <<server_vars, gemini_model, input_mode, conversation_history,
                   is_running, pc, user_input, ai_response, turn, speak,
                   audio_files_to_cleanup, files, clock, log, cleaned, gen_call>>

\* the wait is over: "result = ' '.join(transcribed_text).strip()" and
\* "return result"
listen_result ==
    /\ listening.state = "wait"
    /\ listening.transcription_complete
    /\ listening' = [listening EXCEPT
                         !.leaving = "return",
                         !.result = strip(join(listening.transcribed_text)),
                         !.state = "finally"]
    /\ UNCHANGED <<server_vars, gemini_model, input_mode, conversation_history,
                   is_running, pc, user_input, ai_response, turn, speak,
                   audio_files_to_cleanup, files, clock, log, cleaned, gen_call>>

\* KeyboardInterrupt in the body of the method: "except Exception" does not
\* catch it
listen_keyboard_interrupt ==
    /\ listening.state \in {"connect", "start", "microphone", "wait"}
    /\ listening' = [listening EXCEPT !.leaving = "KeyboardInterrupt",
                                      !.state = "finally"]
    /\ UNCHANGED <<server_vars, gemini_model, input_mode, conversation_history,
                   is_running, pc, user_input, ai_response, turn, speak,
                   audio_files_to_cleanup, files, clock, log, cleaned, gen_call>>

\* the finally clause, then the return or the pending exception
listen_finally ==
    /\ listening.state = "finally"
    /\ \E microphone_outcome \in {"done", "raised"}, dg_outcome \in {"done", "raised"} :
          listening' =
              [listening EXCEPT
                  !.microphone_finish =
                      finish_resource(listening.microphone, microphone_outcome),
                  !.dg_finish =
                      finish_resource(listening.dg_connection, dg_outcome),
                  !.state = IF listening.leaving = "return"
                            THEN "returned" ELSE "raised"]
    /\ UNCHANGED <<server_vars, gemini_model, input_mode, conversation_history,
                   is_running, pc, user_input, ai_response, turn, speak,
                   audio_files_to_cleanup, files, clock, log, cleaned, gen_call>>

(***************************************************************************)
(* src/app.py: the message handlers run by concurrent threads.             *)
(***************************************************************************)
\* the two threads of the server that handle requests at the same time
Threads == {"thread 1", "thread 2"}

\* a thread that handles no request
Idle ==
    [pc |-> "idle", handler |-> "none", data |-> <<>>, session_id |-> "",
     user_message |-> "", ai_response |-> ""]

NoneInFlight == [t \in Threads |-> Idle]

\* the requests that arrive while another one is being handled
ConcurrentRequests ==
    {[message |-> m, session_id |-> "s1"] : m \in {"", " tell me ", "why so?"}}
    \cup {[message |-> " tell me "]}

busy_threads == {t \in Threads : in_flight[t].pc # "idle"}

\* a thread enters send_message or handle_message: the message is
\* stripped and an empty one is answered at once
concurrent_receive ==
    /\ \E t \in Threads, handler \in {"send_message", "handle_message"},
          data \in ConcurrentRequests :
          LET user_message == strip(dict_get(data, "message", ""))
              session_id == dict_get(data, "session_id", "default")
              rejected == IF handler = "send_message" THEN "400" ELSE "error"
          IN  /\ in_flight[t].pc = "idle"
              /\ IF not_provided(user_message)
                 THEN /\ last_request' = [NoRequest EXCEPT !.handler = handler,
                                                           !.status = rejected,
                                                           !.data = data,
                                                           !.error = "No message provided"]
                      /\ UNCHANGED in_flight
                 ELSE /\ total_entries(conversations)
                             + 2 * Cardinality(busy_threads) + 2
                                 <= 2 * MaxConcurrentTurns
                      /\ in_flight' = [in_flight EXCEPT ![t] =
                             [pc |-> "check", handler |-> handler,
                              data |-> data, session_id |-> session_id,
                              user_message |-> user_message, ai_response |-> ""]]
                      /\ UNCHANGED last_request
    /\ UNCHANGED <<gemini_client, conversations, agent_vars, gen_call>>

\* "if session_id not in conversations:"
concurrent_check ==
    /\ \E t \in Threads :
          /\ in_flight[t].pc = "check"
          /\ in_flight' = [in_flight EXCEPT ![t].pc =
                 IF in_flight[t].session_id \in DOMAIN conversations
                 THEN "append_user" ELSE "create"]
    /\ UNCHANGED <<gemini_client, conversations, last_request, agent_vars, gen_call>>

\* "conversations[session_id] = []"
concurrent_create ==
    /\ \E t \in Threads :
          /\ in_flight[t].pc = "create"
          /\ conversations' = (in_flight[t].session_id :> <<>>) @@ conversations
          /\ in_flight' = [in_flight EXCEPT ![t].pc = "append_user"]
    /\ UNCHANGED <<gemini_client, last_request, agent_vars, gen_call>>

\* "conversations[session_id].append({'role': 'user', ...})"
concurrent_append_user ==
    /\ \E t \in Threads :
          /\ in_flight[t].pc = "append_user"
          /\ conversations' = [conversations EXCEPT ![in_flight[t].session_id] =
                 Append(@, user_entry(in_flight[t].user_message))]
          /\ in_flight' = [in_flight EXCEPT ![t].pc = "generate"]
    /\ UNCHANGED <<gemini_client, last_request, agent_vars, gen_call>>

\* "ai_response = voice_agent.generate_response(user_message,
\* conversations[session_id])"
concurrent_generate ==
    /\ \E t \in Threads, gemini \in GeminiOutcomesIf(gemini_client) :
          /\ in_flight[t].pc = "generate"
          /\ in_flight' = [in_flight EXCEPT
                 ![t].pc = "append_model",
                 ![t].ai_response =
                     api_generate_response(gemini_client, in_flight[t].user_message,
                         session_history(conversations, in_flight[t].session_id),
                         gemini).text]
    /\ UNCHANGED <<gemini_client, conversations, last_request, agent_vars, gen_call>>

\* "conversations[session_id].append({'role': 'model', ...})"
concurrent_append_model ==
    /\ \E t \in Threads :
          /\ in_flight[t].pc = "append_model"
          /\ conversations' = [conversations EXCEPT ![in_flight[t].session_id] =
                 Append(@, model_entry(in_flight[t].ai_response))]
          /\ in_flight' = [in_flight EXCEPT ![t].pc = "speak"]
    /\ UNCHANGED <<gemini_client, last_request, agent_vars, gen_call>>

\* "speech_result = voice_agent.speak_with_murf(ai_response)" and the answer
concurrent_respond ==
    /\ \E t \in Threads, murf \in MurfOutcomes :
          /\ in_flight[t].pc = "speak"
          /\ last_request' =
                 [handler |-> in_flight[t].handler,
                  status |-> IF in_flight[t].handler = "send_message"
                             THEN "200" ELSE "message_response",
                  data |-> in_flight[t].data, error |-> "",
                  session_id |-> in_flight[t].session_id,
                  user_message |-> in_flight[t].user_message,
                  ai_response |-> in_flight[t].ai_response,
                  speech |-> api_speak_with_murf(in_flight[t].ai_response, murf),
                  remote_calls |-> IF gemini_client THEN 1 ELSE 0,
                  murf_calls |-> 1]
          /\ in_flight' = [in_flight EXCEPT ![t] = Idle]
    /\ UNCHANGED <<gemini_client, conversations, agent_vars, gen_call>>

(***************************************************************************)
(* Specifications.                                                         *)
(***************************************************************************)
NoGenCall ==
    [program |-> "none", configured |-> FALSE, text |-> "", history |-> <<>>,
     outcome |-> NoGeminiCall, result |-> NoResult]

\* app.py after import: no session yet
ServerStart(clients) ==
    /\ gemini_client \in clients
    /\ conversations = <<>>
    /\ last_request = NoRequest
    /\ in_flight = NoneInFlight

\* VoiceAgent after __init__
AgentStart(models) ==
    /\ gemini_model \in models
    /\ input_mode = "voice"
    /\ conversation_history = <<>>
    /\ is_running = FALSE
    /\ pc = "init"
    /\ user_input = ""
    /\ ai_response = ""
    /\ turn = NoTurn
    /\ speak = NotSpeaking
    /\ audio_files_to_cleanup = <<>>
    /\ files = {}
    /\ clock = 1
    /\ log = <<>>
    /\ cleaned = NotCleaned
    /\ listening = NotListening

NextServer == send_message \/ handle_message

NextAgent ==
    \/ start \/ greeted \/ listen \/ type_input \/ generate \/ responded
    \/ said_farewell \/ keyboard_interrupt \/ interrupted \/ cleanup_resources
    \/ speak_attempt \/ speak_interrupt

NextGen == api_generate \/ agent_generate

\* the server alone
InitServer == ServerStart(BOOLEAN) /\ AgentStart({FALSE}) /\ gen_call = NoGenCall
SpecServer == InitServer /\ [][NextServer]_vars

\* every endpoint of the server that takes a text
NextApi == send_message \/ handle_message \/ text_to_speech
SpecApi == InitServer /\ [][NextApi]_vars

\* the server with concurrent handler threads
NextConcurrent ==
    \/ concurrent_receive \/ concurrent_check \/ concurrent_create
    \/ concurrent_append_user \/ concurrent_generate
    \/ concurrent_append_model \/ concurrent_respond
SpecConcurrent == InitServer /\ [][NextConcurrent]_vars

\* the command-line agent alone
InitAgent == ServerStart({FALSE}) /\ AgentStart(BOOLEAN) /\ gen_call = NoGenCall
SpecAgent == InitAgent /\ [][NextAgent]_vars

\* speak_with_murf called again and again; every execution of its body
\* comes to an end, because the requests carry a timeout and the retry
\* delay and the player are finite
NextSpeak == call_speak_with_murf \/ speak_attempt \/ speak_interrupt
SpecSpeak == InitAgent /\ [][NextSpeak]_vars
FairSpecSpeak == SpecSpeak /\ WF_vars(speak_attempt)

\* listen_with_deepgram called again and again
NextListen ==
    \/ call_listen_with_deepgram \/ listen_connect \/ listen_start
    \/ listen_microphone \/ on_message \/ on_error \/ listen_timeout
    \/ listen_result \/ listen_keyboard_interrupt \/ listen_finally
SpecListen == InitAgent /\ [][NextListen]_vars

\* generate_response on drawn arguments
InitGen == ServerStart({FALSE}) /\ AgentStart({FALSE}) /\ InitGenCall
SpecGen == InitGen /\ [][NextGen]_vars

\* the generate_response calls of one run
InitChat == ServerStart({FALSE}) /\ AgentStart(BOOLEAN) /\ gen_call = NoChatCall
SpecChat == InitChat /\ [][converse]_vars

\* everything together
Init == ServerStart(BOOLEAN) /\ AgentStart(BOOLEAN) /\ gen_call = NoGenCall
Next == NextServer \/ NextAgent
Spec == Init /\ [][Next]_vars

(***************************************************************************)
(* Properties of the server (SpecServer).                                  *)
(***************************************************************************)
Answered == {"200", "message_response"}

\* C1: the stored history of every session is truncated to a fixed recent
\* window: its length never exceeds the window, however many turns the
\* session has had.  The only window app.py knows is the one of the prompt.
C1_TruncatedToWindow ==
    \A s \in DOMAIN conversations : Len(conversations[s]) <= RECENT_MESSAGES

C2_Alternates(h) ==
    /\ Len(h) % 2 = 0
    /\ \A i \in 1..Len(h) :
          /\ DOMAIN h[i] = {"role", "parts"}
          /\ h[i].role = IF i % 2 = 1 THEN "user" ELSE "model"

C2_Extends ==
    LET r == last_request'
        s == r.session_id
        old == IF s \in DOMAIN conversations THEN conversations[s] ELSE <<>>
    IN  IF r.status \in Answered
        THEN /\ DOMAIN conversations' = DOMAIN conversations \cup {s}
             /\ conversations'[s] =
                    old \o << [role |-> "user", parts |-> <<r.user_message>>],
                              [role |-> "model", parts |-> <<r.ai_response>>] >>
             /\ \A o \in DOMAIN conversations \ {s} :
                    conversations'[o] = conversations[o]
        ELSE conversations' = conversations

\* C2: every accepted message handled by send_message or handle_message
\* extends the history of its session by exactly two entries, the user turn
\* and then the model turn holding the reply returned to the client, whatever
\* produced the reply and whatever the Murf call did; every session history
\* has even length and alternates user, model.
C2_TwoEntriesPerMessage ==
    /\ [](\A s \in DOMAIN conversations : C2_Alternates(conversations[s]))
    /\ [][C2_Extends]_vars

\* a session with two exchanges, the last one answered by the fallback
\* responder after a Murf failure
C2_Witness ==
    /\ last_request.status \in Answered
    /\ ~last_request.speech.success
    /\ last_request.session_id \in DOMAIN conversations
    /\ Len(conversations[last_request.session_id]) = 4
    /\ last_request.ai_response = api_replies.repeated

(***************************************************************************)
(* Properties of generate_response (SpecGen).                              *)
(***************************************************************************)
C4_Fallback ==
    IF gen_call.program = "app"
    THEN api_fallback_response(gen_call.text, gen_call.result.history)
    ELSE agent_fallback_response(gen_call.text, gen_call.history)

\* C4: generate_response never propagates a failure of the completion
\* endpoint: if the Gemini call raises, the result is what the fallback
\* responder returns for the same input and history; in the server the same
\* holds for a reply that is empty or shorter than 5 characters, and the
\* server's result is never empty.
C4_NeverPropagates ==
    gen_call.result.done =>
        /\ gen_call.outcome.kind = "raise" => gen_call.result.text = C4_Fallback
        /\ gen_call.program = "app" =>
              /\ gen_call.result.text # ""
              /\ (gen_call.outcome.kind = "text"
                      /\ Len(strip(gen_call.outcome.text)) < 5)
                    => gen_call.result.text = C4_Fallback

\* the server got the two-character reply "Ok" and answered with the
\* fallback responder instead
C4_Witness ==
    /\ gen_call.result.done
    /\ gen_call.program = "app"
    /\ gen_call.outcome.kind = "text"
    /\ strip(gen_call.outcome.text) = "Ok"
    /\ gen_call.result.text = C4_Fallback
    /\ gen_call.result.text # "Ok"

\* the index of the first rule that matches, in the order greeting, 'how are
\* you', name, help, thanks, goodbye, repeated question, question mark, more
\* than 10 words, default
C5_FirstRule(text, repeated) ==
    LET low == lower(text)
        rules == << any_in({"hello", "hi", "hey"}, low),
                    contains("how are you", low),
                    any_in({"name", "who are you"}, low),
                    any_in({"help", "what can you do"}, low),
                    any_in({"thank", "thanks"}, low),
                    any_in({"bye", "goodbye", "see you"}, low),
                    repeated,
                    contains("?", text),
                    word_count(text) > 10,
                    TRUE >>
    IN  CHOOSE k \in 1..10 : rules[k] /\ \A j \in 1..(k - 1) : ~rules[j]

C5_ReplyOfRule(k, text, replies, question, defaults) ==
    CASE k = 1 -> replies.greeting
      [] k = 2 -> replies.how_are_you
      [] k = 3 -> replies.name
      [] k = 4 -> replies.help
      [] k = 5 -> replies.thanks
      [] k = 6 -> replies.goodbye
      [] k = 7 -> replies.repeated
      [] k = 8 -> question
      [] k = 9 -> replies.long
      [] k = 10 -> defaults[(Len(text) % 5) + 1]

C5_Expected ==
    IF gen_call.program = "app"
    THEN C5_ReplyOfRule(
             C5_FirstRule(gen_call.text, api_repeated_question(gen_call.result.history)),
             gen_call.text, api_replies, api_question_reply(gen_call.text),
             api_default_responses(gen_call.text))
    ELSE C5_ReplyOfRule(
             C5_FirstRule(gen_call.text, agent_repeated_question(gen_call.history)),
             gen_call.text, agent_replies, agent_question_reply(gen_call.text),
             agent_default_responses(gen_call.text))

\* C5: without an LLM credential generate_response makes no call to the
\* completion endpoint, and its reply is the one of the first matching rule
\* in the fixed order, the default reply being indexed by len(input) mod 5.
C5_FallbackOnly ==
    (gen_call.result.done /\ ~gen_call.configured) =>
        /\ gen_call.result.remote_calls = 0
        /\ gen_call.result.text = C5_Expected

\* an input without keyword, question mark or repetition got the default
\* reply number len("nope") mod 5 = 4
C5_Witness ==
    /\ gen_call.result.done
    /\ ~gen_call.configured
    /\ gen_call.text = "nope"
    /\ gen_call.result.text = api_default_responses("nope")[5]

(***************************************************************************)
(* Properties of the command-line agent (SpecAgent).                       *)
(***************************************************************************)
\* C3: every call of VoiceAgent.generate_response that returns a reply
\* leaves both turns of the exchange at the end of conversation_history,
\* 'User: ...' followed by 'Agent: ...', whoever produced the reply.
C3_BothTurnsStored ==
    turn.generate_calls > 0 =>
        last_n(conversation_history, 2) =
            <<"User: " \o turn.generated_for, "Agent: " \o turn.reply>>

\* C6: whenever speak_with_murf returns, any audio file that call wrote to
\* disk has been removed and its name is no longer in
\* audio_files_to_cleanup, provided the file removal itself does not fail.
C6_FileDeletedAfterUse ==
    (speak.state = "returned" /\ speak.written /\ ~speak.remove_failed) =>
        /\ speak.audio_file \notin files
        /\ speak.audio_file \notin elements(audio_files_to_cleanup)

C7_Bounded ==
    /\ speak.attempts <= 4
    /\ speak.attempts <= MAX_RETRIES + 1
    /\ speak.retry_count <= MAX_RETRIES
    /\ speak.state = "running" => speak.attempts = speak.retry_count
    /\ (speak.state = "returned" /\ speak.attempts = MAX_RETRIES + 1
            /\ speak.outcome \in {"timeout", "request_error"})
          => speak.result = FALSE

C7_Step ==
    (speak.state = "running" /\ speak' # speak) =>
        /\ speak'.text = speak.text
        /\ speak'.attempts = speak.attempts + 1
        /\ \/ /\ speak'.state \in {"returned", "raised"}
              /\ speak'.retry_count = speak.retry_count
           \/ /\ speak'.state = "running"
              /\ speak'.retry_count = speak.retry_count + 1
              /\ speak.retry_count < MAX_RETRIES
              /\ speak'.outcome \in {"timeout", "request_error"}

\* C7: the retries of speak_with_murf are bounded: one top-level call makes
\* at most MAX_RETRIES + 1 = 4 attempts; every attempt either ends the call
\* or, after a timeout or other request failure while retry_count <
\* MAX_RETRIES, starts the next one with retry_count + 1; when the last
\* allowed attempt fails too, the call returns False; hence every call
\* comes to an end.
C7_BoundedRetries ==
    /\ []C7_Bounded
    /\ [][C7_Step]_vars
    /\ (speak.state = "running") ~> (speak.state # "running")

\* a call that used all four attempts and gave up
C7_Witness ==
    /\ speak.state = "returned"
    /\ speak.attempts = 4
    /\ speak.retry_count = MAX_RETRIES
    /\ speak.outcome = "timeout"
    /\ ~speak.result

\* C8: speak_with_murf returns True exactly when the speech was generated,
\* downloaded, saved and played, and False otherwise, in particular when
\* playing the audio fails.
C8_TrueIffPlayed ==
    speak.state = "returned" => (speak.result <=> speak.outcome = "played")

\* an input with one of the exit words of the claims, in any case
ExitInput(text) ==
    \E word \in {"goodbye", "bye", "exit", "quit", "stop"} :
        contains(word, lower(text))

\* the last acquired input asks for a reply
ReplyTurn == turn.acquired /\ turn.input # "" /\ ~ExitInput(turn.input)

\* the last acquired input asks to stop
ExitTurn == turn.acquired /\ turn.input # "" /\ ExitInput(turn.input)

\* C9 as stated: back at the top of the loop after an input that is not
\* empty and has no exit word, generate_response was called exactly once
\* with that input and speak_with_murf was called with its non-empty reply.
C9_AlwaysSpoken ==
    (pc = "listen" /\ ReplyTurn) =>
        /\ turn.generate_calls = 1
        /\ turn.generated_for = turn.input
        /\ turn.reply # ""
        /\ turn.spoken = <<turn.reply>>
        /\ speak.state # "running"

C9_Cycle ==
    /\ pc = "generate" =>
          ReplyTurn /\ turn.generate_calls = 0 /\ turn.spoken = <<>>
                    /\ user_input = turn.input
    /\ pc = "respond" =>
          /\ ReplyTurn
          /\ turn.generate_calls = 1 /\ turn.generated_for = turn.input
          /\ turn.reply # "" /\ turn.spoken = <<turn.reply>>
          /\ speak.text = turn.reply
    /\ (pc = "listen" /\ ReplyTurn) =>
          /\ turn.generate_calls = 1 /\ turn.generated_for = turn.input
          /\ turn.spoken = IF turn.reply # "" THEN <<turn.reply>> ELSE <<>>
    /\ pc = "listen" => speak.state = "idle"
    /\ (turn.acquired /\ turn.input = "") =>
          turn.generate_calls = 0 /\ turn.spoken = <<>>

C9_EmptyInput ==
    (pc = "listen" /\ pc' = "listen") =>
        /\ turn'.acquired /\ turn'.input = ""
        /\ UNCHANGED <<conversation_history, speak>>

\* C9, amended: the loop follows listen, generate, speak, repeat: for an
\* input that is not empty and has no exit word generate_response is called
\* exactly once with that input; a non-empty reply is then handed to
\* speak_with_murf and the next input is acquired only after that call has
\* returned, an empty reply is not spoken; an empty input triggers neither
\* call and leaves conversation_history unchanged.
C9_ListenGenerateSpeak == []C9_Cycle /\ [][C9_EmptyInput]_vars

\* back at the top of the loop after a reply was generated and spoken
C9_Witness ==
    /\ pc = "listen" /\ ReplyTurn
    /\ turn.generate_calls = 1
    /\ turn.reply # "" /\ turn.spoken = <<turn.reply>>
    /\ conversation_history # <<>>

\* C10 as stated: an input with an exit word ends the conversation: the
\* farewell is spoken, generate_response is not called for it, no further
\* input is acquired and is_running is False once the loop is left.
C10_ExitEndsRun ==
    ExitTurn =>
        /\ turn.spoken = <<farewell>>
        /\ turn.generate_calls = 0
        /\ pc \in {"farewell", "interrupted", "finally", "stopped"}
        /\ pc \in {"finally", "stopped"} => ~is_running

\* C10, amended: as stated, except that is_running stays True when the loop
\* is left by a keyboard interrupt that cuts short the interrupt message.
C10_ExitEndsLoop ==
    ExitTurn =>
        /\ turn.spoken = <<farewell>>
        /\ turn.generate_calls = 0
        /\ pc \in {"farewell", "interrupted", "finally", "stopped"}
        /\ pc = "farewell" => speak.text = farewell
        /\ pc \in {"finally", "stopped"} =>
              (is_running <=> (speak.state = "raised" /\ speak.text = interrupt_msg))

\* the run has stopped after the typed line "please STOP now"
C10_Witness ==
    /\ pc = "stopped"
    /\ turn.input = "please STOP now"
    /\ speak.state = "returned" /\ speak.text = farewell
    /\ ~is_running

(***************************************************************************)
(* The history handed to the completion endpoint (SpecGen).                *)
(***************************************************************************)
\* the last n entries of h, or all of them if there are fewer
C11_Window(h, n) ==
    LET m == IF Len(h) < n THEN Len(h) ELSE n
    IN  [i \in 1..m |-> h[Len(h) - m + i]]

\* the prompt line of a stored server entry
C11_Line(entry) ==
    IF entry.role = "user" THEN "User: " \o entry.parts[1]
    ELSE "Assistant: " \o entry.parts[1]

\* the chat turn of a stored agent entry
C11_Turn(msg) ==
    IF startswith(msg, "User: ")
    THEN [role |-> "user", parts |-> <<SubSeq(msg, 7, Len(msg))>>]
    ELSE [role |-> "model", parts |-> <<SubSeq(msg, 8, Len(msg))>>]

\* C11: the history handed to the completion endpoint is a recent window
\* of the stored one: the server's prompt holds the last 6 stored entries
\* (all of them if there are fewer), the agent's start_chat gets the last
\* MAX_HISTORY_LENGTH = 10 entries of conversation_history, entry for entry
\* in their original order, whatever the length of the history.
C11_TrimmedHistory ==
    (gen_call.result.done /\ gen_call.result.remote_calls = 1) =>
        LET sent == gen_call.result.sent
        IN  IF gen_call.program = "app"
            THEN LET window == C11_Window(gen_call.result.history, 6)
                 IN  /\ Len(sent) <= 6
                     /\ Len(sent) = Len(window)
                     /\ \A i \in 1..Len(window) : sent[i] = C11_Line(window[i])
            ELSE LET window == C11_Window(gen_call.history, 10)
                 IN  /\ Len(sent) <= 10
                     /\ Len(sent) = Len(window)
                     /\ \A i \in 1..Len(window) : sent[i] = C11_Turn(window[i])

\* the agent held 12 entries and start_chat got the last 10 of them, the
\* first being the user turn of the second exchange
C11_Witness ==
    /\ gen_call.result.done
    /\ gen_call.program = "voice_agent"
    /\ gen_call.result.remote_calls = 1
    /\ Len(gen_call.history) = 12
    /\ Len(gen_call.result.sent) = 10
    /\ gen_call.result.sent[1] = [role |-> "user", parts |-> <<"two">>]
    /\ gen_call.result.sent[10] = [role |-> "model", parts |-> <<"Reply six.">>]

(***************************************************************************)
(* The stored history of the agent over a long conversation (SpecChat).    *)
(***************************************************************************)
C12_Alternates(h) ==
    /\ Len(h) % 2 = 0
    /\ \A i \in 1..Len(h) :
          IF i % 2 = 1 THEN startswith(h[i], "User: ")
          ELSE startswith(h[i], "Agent: ")

C12_ChatAlternates(chat) ==
    \A i \in 1..Len(chat) : chat[i].role = IF i % 2 = 1 THEN "user" ELSE "model"

C12_State ==
    /\ Len(conversation_history) <= 2 * MAX_HISTORY_LENGTH
    /\ Len(conversation_history) <= 20
    /\ C12_Alternates(conversation_history)
    /\ gen_call.result.done =>
          /\ Len(gen_call.result.sent) <= MAX_HISTORY_LENGTH
          /\ C12_ChatAlternates(gen_call.result.sent)

\* a call changes the history only by appending its exchange and dropping
\* entries from the front, and drops none while there is room
C12_Step ==
    conversation_history' # conversation_history =>
        LET grown == conversation_history
                         \o <<"User: " \o user_input', "Agent: " \o ai_response'>>
            dropped == Len(grown) - Len(conversation_history')
        IN  /\ dropped >= 0
            /\ conversation_history' = SubSeq(grown, dropped + 1, Len(grown))
            /\ dropped = IF Len(grown) > 20 THEN Len(grown) - 20 ELSE 0

\* C12: in the agent conversation_history never holds more than
\* 2 * MAX_HISTORY_LENGTH = 20 entries, has even length and alternates
\* 'User: ' and 'Agent: ' entries starting with a 'User: ' entry;
\* truncation drops only the oldest entries, so the history given to
\* start_chat alternates too and begins with a user turn.
C12_BoundedAlternating == []C12_State /\ [][C12_Step]_vars

\* the eleventh exchange pushed the first one out of a full history, and
\* the twelfth call handed the last ten entries to start_chat
C12_Witness ==
    /\ gen_call.result.done
    /\ gen_call.outcome.kind = "text"
    /\ Len(gen_call.history) = 20
    /\ Len(conversation_history) = 20
    /\ conversation_history # gen_call.history
    /\ Len(gen_call.result.sent) = 10
    /\ gen_call.result.sent[1].role = "user"
    /\ "Agent: " \in elements(conversation_history)

(***************************************************************************)
(* The repeated question (SpecChat for the agent, SpecServer for the       *)
(* server).                                                                *)
(***************************************************************************)
\* none of the six keyword rules matches the message
C13_NoKeyword(text) == C5_FirstRule(text, FALSE) > 6

\* C13, command-line agent: when the user sends the same message, matching
\* none of the keyword rules, twice in a row and the fallback responder
\* answers because no model is configured, the second reply is the 'I see
\* you're asking the same question...' reply.
C13_AgentRepeatedQuestion ==
    ( /\ gen_call.result.done
      /\ ~gen_call.configured
      /\ gen_call.previous.done
      /\ gen_call.previous.text = gen_call.text
      /\ C13_NoKeyword(gen_call.text) )
    => gen_call.result.text = agent_replies.repeated

C13_ServerStep ==
    ( /\ ~gemini_client
      /\ last_request.status \in Answered
      /\ last_request'.status \in Answered
      /\ last_request'.session_id = last_request.session_id
      /\ last_request'.user_message = last_request.user_message
      /\ C13_NoKeyword(last_request'.user_message) )
    => last_request'.ai_response = api_replies.repeated

\* C13, server: the same holds for two accepted requests in a row of one
\* session that carry the same message.
C13_ServerRepeatedQuestion == [][C13_ServerStep]_vars

(***************************************************************************)
(* The end of a run (SpecAgent).                                           *)
(***************************************************************************)
\* the positions of run inside its conversation loop
C14_InLoop == {"listen", "generate", "respond", "farewell", "interrupted"}

C14_Stopped ==
    pc = "stopped" =>
        /\ Len(log) >= 3
        /\ last_n(log, 3) = session_end_entries
        /\ cleaned.done
        /\ audio_files_to_cleanup = <<>>
        /\ \A f \in elements(cleaned.listed) : f \in files => f \in cleaned.failed

C14_Finally ==
    /\ (pc \in C14_InLoop /\ pc' \notin C14_InLoop) => pc' = "finally"
    /\ (pc = "finally" /\ pc' # pc) =>
          /\ pc' = "stopped"
          /\ log' = log \o session_end_entries
          /\ cleaned'.done /\ cleaned'.listed = audio_files_to_cleanup
    /\ pc = "stopped" => pc' = "stopped"

\* C14: however run leaves its conversation loop (exit word, keyboard
\* interrupt, or an exception that escapes the loop), it goes through its
\* finally clause, which can always run: the session-end entries are
\* logged and _cleanup_resources runs, after which audio_files_to_cleanup
\* is empty and a file that was named in it exists only if its removal
\* failed.
C14_CleanupOnExit ==
    /\ [](C14_Stopped /\ (pc = "finally" => ENABLED cleanup_resources))
    /\ [][C14_Finally]_vars

\* the loop was left by an exception out of the interrupt handler, and the
\* cleanup removed a file that an earlier speak_with_murf call had left
C14_Witness ==
    /\ pc = "stopped"
    /\ is_running
    /\ speak.state = "raised"
    /\ cleaned.done
    /\ cleaned.removed # {}
    /\ cleaned.failed = {}
    /\ files = {}

(***************************************************************************)
(* listen_with_deepgram (SpecListen).                                      *)
(***************************************************************************)
C15_Over == listening.state \in {"returned", "raised"}

\* whatever was started or opened has had its finish() called
C15_Finished ==
    C15_Over =>
        /\ listening.microphone = "started"
              => listening.microphone_finish # "not called"
        /\ listening.dg_connection = "started"
              => listening.dg_finish # "not called"

C16_Prefix(h, g) == Len(h) <= Len(g) /\ SubSeq(g, 1, Len(h)) = h

C16_Paired ==
    busy_threads = {} =>
        \A s \in DOMAIN conversations : C2_Alternates(conversations[s])

C16_Kept ==
    \A s \in DOMAIN conversations :
        /\ s \in DOMAIN conversations'
        /\ C16_Prefix(conversations[s], conversations'[s])

\* C16: when requests for one session are handled concurrently, in any
\* interleaving of the steps of send_message and handle_message, the
\* session history consists of adjacent user/model pairs once the requests
\* are answered, and no stored entry is ever lost.
C16_PairsUnderConcurrency == []C16_Paired /\ [][C16_Kept]_vars

(***************************************************************************)
(* Sessions (SpecServer).                                                  *)
(***************************************************************************)
C17_Step ==
    LET r == last_request'
        s == r.session_id
        old == IF s \in DOMAIN conversations THEN conversations[s] ELSE <<>>
        seen == Append(old, [role |-> "user", parts |-> <<r.user_message>>])
    IN  (r.status \in Answered /\ conversations' # conversations) =>
            /\ s \in SessionIds \cup {"default"}
            /\ DOMAIN conversations' = DOMAIN conversations \cup {s}
            /\ \A o \in DOMAIN conversations \ {s} :
                   conversations'[o] = conversations[o]
            /\ \E gemini \in GeminiOutcomesIf(gemini_client) :
                   r.ai_response =
                       api_generate_response(gemini_client, r.user_message,
                                             seen, gemini).text
            /\ conversations'[s] =
                   Append(seen, [role |-> "model", parts |-> <<r.ai_response>>])

\* C17: sessions are isolated: a request for session s, 'default' when it
\* names none, changes only conversations[s] and leaves every other
\* session's history as it was, and its reply is what generate_response
\* gives for the message and the history of s alone.
C17_SessionsIsolated == [][C17_Step]_vars

\* a request without session_id got the repeated-question reply from the
\* history of 'default', while session 's1' holds one exchange of its own
C17_Witness ==
    /\ last_request.status \in Answered
    /\ last_request.session_id = "default"
    /\ last_request.ai_response = api_replies.repeated
    /\ DOMAIN conversations = {"s1", "default"}
    /\ Len(conversations["s1"]) = 2
    /\ Len(conversations["default"]) = 4

(***************************************************************************)
(* Requests without a message (SpecApi).                                   *)
(***************************************************************************)
\* the value under key is missing, empty or only whitespace
C18_Blank(data, key) ==
    \/ key \notin DOMAIN data
    \/ \A i \in 1..Len(data[key]) : CharAt(data[key], i) = " "

C18_Refused(r) ==
    /\ r.status = IF r.handler = "handle_message" THEN "error" ELSE "400"
    /\ r.error = IF r.handler = "text_to_speech"
                 THEN "No text provided" ELSE "No message provided"
    /\ r.remote_calls = 0
    /\ r.murf_calls = 0
    /\ conversations' = conversations

C18_Step ==
    LET r == last_request'
    IN  /\ r.handler \in {"send_message", "handle_message"} =>
              IF C18_Blank(r.data, "message") THEN C18_Refused(r)
              ELSE r.status \in Answered /\ r.murf_calls = 1
        /\ r.handler = "text_to_speech" =>
              /\ conversations' = conversations
              /\ IF C18_Blank(r.data, "text") THEN C18_Refused(r)
                 ELSE r.status = "200" /\ r.murf_calls = 1

\* C18: a request to send_message or handle_message whose message is
\* missing, empty or only whitespace is refused (400 'No message
\* provided', an 'error' event) and leaves conversations as it was: no
\* session is created, no entry appended, no call made to Gemini or Murf;
\* /api/tts with a missing or blank text answers 400 without calling Murf.
C18_BlankRejected == [][C18_Step]_vars

\* a whitespace message for a session that does not exist was refused by
\* handle_message, while the store holds another session
C18_Witness ==
    /\ last_request.handler = "handle_message"
    /\ last_request.status = "error"
    /\ last_request.data = [message |-> "   ", session_id |-> "s1"]
    /\ DOMAIN conversations = {"default"}
    /\ Len(conversations["default"]) = 2

====
